---- MODULE Spec2Model ----
(***************************************************************************)
(* FlowAI: the two workflow compilers (WorkflowCompiler, LangGraphCompiler) *)
(* and the two executors (WorkflowExecutor, LangGraphDynamicExecutor run as *)
(* a background task), modelled from backend/app/services and               *)
(* backend/app/api/endpoints/executions.py.                                 *)
(*                                                                          *)
(* Strings the code takes apart or builds (node ids, output keys, state     *)
(* field names) are sequences of one-character strings; strings the code    *)
(* only compares (node types, reducers, statuses) are TLA+ strings.         *)
(***************************************************************************)
EXTENDS Integers, Sequences, FiniteSets, TLC

VARIABLES
    graph,        \* the caller's graph object handed to the compilers (a dict holding lists)
    graph0,       \* the value of graph before any compile call
    wc,           \* the fields of one WorkflowCompiler instance
    wcIn,         \* the graph last passed to wc.compile
    wcOut,        \* what that call returned or raised, NotCalled before
    wcCompiles,   \* number of compile calls made on wc
    lgOut,        \* what the last LangGraphCompiler.compile(graph) returned or raised
    lgFirst,      \* what the first LangGraphCompiler.compile(graph) returned or raised
    lgCompiles,   \* number of LangGraphCompiler.compile calls made on graph
    exGraph,      \* graph_data handed to WorkflowExecutor.execute
    execution,    \* the row of the executions table
    logs,         \* the rows of execution_logs, in insertion order
    pc,           \* where WorkflowExecutor.execute stands
    stack,        \* the active calls of _execute_from_node: node and loop position
    callee,       \* the node id _execute_from_node is being called with
    state,        \* the workflow state dict
    visited,      \* the visited set
    calls,        \* history: <<caller, node>> for every node body entered
    runs,         \* number of execute calls made on the execution
    cancel,       \* history: the number of logs when the status was set to cancelled
    task,         \* where the background task of create_execution stands
    E2B_API_KEY,  \* settings.E2B_API_KEY
    sandbox,      \* the E2B sandbox of the execution: "none", "alive" or "killed"
    ws,           \* the websocket handler: its position, its execution object, sent_log_count
    events,       \* the events the websocket has sent, in order
    args,         \* the arguments a helper function is called with
    ret           \* what the call returned or raised, NotCalled before

cvars == <<graph, graph0, wc, wcIn, wcOut, wcCompiles, lgOut, lgFirst, lgCompiles>>

evars == <<exGraph, execution, logs, pc, stack, callee, state, visited, calls, runs, cancel>>

bvars == <<task, E2B_API_KEY, sandbox>>

wvars == <<ws, events>>

hvars == <<args, ret>>

vars == <<cvars, evars, bvars, wvars, hvars>>

\* the value of a result variable before the first call
NotCalled == [ok |-> FALSE, error |-> <<>>]

\* an optional value: None, or the value in a one-element sequence
None == <<>>

Some(x) == <<x>>

----------------------------------------------------------------------------
(* Bounds of the compiler model *)

MaxNodes == 2
MaxEdges == 1
MaxCompiles == 2

\* nodes and edges of an executed graph, execute calls on one execution
MaxExecNodes == 3

MaxExecEdges == 2

MaxRuns == 2

\* polls of one websocket connection
MaxPolls == 3
\* conditional routing: edges that leave the source, routes per edge
MaxRouteEdges == 2
MaxRoutes == 2
\* helper functions: the length of a name
MaxNameLen == 3
\* helper functions: the largest number in a condition or in the state
MaxLiteral == 2
\* helper functions: the length of a prompt or URL template
MaxTemplateLen == 5

----------------------------------------------------------------------------
(* Strings as character sequences *)

Digits == {"0", "1", "2", "3", "4", "5", "6", "7", "8", "9"}

LowerCase == {"a", "b", "c", "d", "e", "f", "g", "h", "i", "j", "k", "l", "m",
              "n", "o", "p", "q", "r", "s", "t", "u", "v", "w", "x", "y", "z"}

UpperCase == {"A", "B", "C", "D", "E", "F", "G", "H", "I", "J", "K", "L", "M",
              "N", "O", "P", "Q", "R", "S", "T", "U", "V", "W", "X", "Y", "Z"}

\* the character class [a-zA-Z0-9_] of the sanitizer's pattern
IdentifierChars == LowerCase \cup UpperCase \cup Digits \cup {"_"}

SeqsUpTo(S, n) == UNION {[1..k -> S] : k \in 0..n}

IsInjective(s) == \A i, j \in 1..Len(s) : s[i] = s[j] => i = j

\* a slip the code could have made: the test for a leading digit left out
sanitize_identifier_no_prefix(name) ==
    [i \in 1..Len(name) |-> IF name[i] \in IdentifierChars THEN name[i] ELSE "_"]

\* re.sub(r'[^a-zA-Z0-9_]', '_', name), then a leading '_' before a digit.
\* Called only with a non-empty name (sanitized[0] raises IndexError on "").
sanitize_identifier(name) ==
    LET sanitized == [i \in 1..Len(name) |->
                        IF name[i] \in IdentifierChars THEN name[i] ELSE "_"]
    IN  IF sanitized[1] \in Digits THEN <<"_">> \o sanitized ELSE sanitized

----------------------------------------------------------------------------
(* Graphs handed to the compilers *)

NoKey == <<>>     \* output_key absent, None or "": all falsy in the code

NoId == <<>>      \* where the code has no node id

CompileNodeIds == {<<"n", "1">>, <<"n", "2">>}

\* an id no node of the pool carries: an edge end that references nothing
UnknownNodeId == <<"z">>

CompileNodeTypes == {"trigger", "llm", "dataset"}

\* an output key that is a valid identifier as written and one that the
\* sanitizer rewrites
OutputKeys == {NoKey, <<"1", "k">>}

\* trigger and dataset nodes without an output key, llm nodes with each key
CompileNodePool ==
    {n \in [id : CompileNodeIds, type : CompileNodeTypes, output_key : OutputKeys] :
        n.output_key # NoKey => n.type = "llm"}

\* edges with an end at the first node; the other end may be unknown
CompileEdgePool ==
    {e \in [source : CompileNodeIds \cup {UnknownNodeId},
            target : CompileNodeIds \cup {UnknownNodeId},
            type : {"default"}] :
        <<"n", "1">> \in {e.source, e.target}}

Field(name, type, reducer) == [name |-> name, type |-> type, reducer |-> reducer]

\* declared state schemas: none, one field, one field that an output key
\* sanitizes to, and a schema that declares a name twice
DeclaredSchemas ==
    { <<>>,
      <<Field(<<"k">>, "str", "none")>>,
      <<Field(<<"_", "1", "k">>, "list", "add")>>,
      <<Field(<<"k">>, "str", "none"), Field(<<"k">>, "list", "add")>> }

Graphs ==
    [nodes : SeqsUpTo(CompileNodePool, MaxNodes),
     edges : SeqsUpTo(CompileEdgePool, MaxEdges),
     state_schema : DeclaredSchemas]

\* WorkflowCompiler reads only id, type, source and target: it is exercised
\* on the graphs whose other fields are at their defaults
IsWCGraph(g) ==
    /\ g.state_schema = <<>>
    /\ \A i \in 1..Len(g.nodes) : g.nodes[i].output_key = NoKey

\* a graph a compiler instance may have compiled earlier: one llm node with
\* an edge to itself
OtherGraphs ==
    {[nodes |-> <<[id |-> <<"n", "2">>, type |-> "llm", output_key |-> NoKey]>>,
      edges |-> <<[source |-> <<"n", "2">>, target |-> <<"n", "2">>, type |-> "default"]>>,
      state_schema |-> <<>>]}

NodeIdsOf(nodes) == {nodes[i].id : i \in 1..Len(nodes)}

HasTrigger(nodes) == \E i \in 1..Len(nodes) : nodes[i].type = "trigger"

\* trigger_nodes[0]["id"]: the first trigger in declaration order
FirstTrigger(nodes) ==
    LET idx == {i \in 1..Len(nodes) : nodes[i].type = "trigger"}
    IN  nodes[CHOOSE i \in idx : \A j \in idx : i <= j].id

EdgeEndsKnown(nodes, edges) ==
    \A i \in 1..Len(edges) :
        /\ edges[i].source \in NodeIdsOf(nodes)
        /\ edges[i].target \in NodeIdsOf(nodes)

Raised(msg) == [ok |-> FALSE, error |-> msg]

Returned(code) == [ok |-> TRUE, code |-> code]

----------------------------------------------------------------------------
(* WorkflowCompiler (services/compiler/compiler.py) *)

\* __init__: empty lists, an empty node_map, an empty defaultdict(list)
WorkflowCompiler_init ==
    [nodes |-> <<>>, edges |-> <<>>, node_map |-> <<>>, adjacency |-> <<>>]

\* the last node of the list that carries the id
LastNodeWithId(nodes, id) ==
    LET idx == {i \in 1..Len(nodes) : nodes[i].id = id}
    IN  nodes[CHOOSE i \in idx : \A j \in idx : j <= i]

TargetsFrom(edges, source) ==
    LET from == SelectSeq(edges, LAMBDA e : e.source = source)
    IN  [i \in 1..Len(from) |-> from[i].target]

\* compile, lines 29-37: the instance after the graph is loaded; node_map
\* and adjacency are never reset, so they keep the entries of earlier calls
WorkflowCompiler_load(self, graph_data) ==
    LET nodes == graph_data.nodes
        edges == graph_data.edges
        sources == {edges[i].source : i \in 1..Len(edges)}
    IN  [nodes |-> nodes,
         edges |-> edges,
         node_map |->
            [id \in DOMAIN self.node_map \cup NodeIdsOf(nodes) |->
                IF id \in NodeIdsOf(nodes) THEN LastNodeWithId(nodes, id)
                ELSE self.node_map[id]],
         adjacency |->
            [s \in DOMAIN self.adjacency \cup sources |->
                (IF s \in DOMAIN self.adjacency THEN self.adjacency[s] ELSE <<>>)
                    \o TargetsFrom(edges, s)]]

\* a slip the code could have made: the known ids taken from node_map
WorkflowCompiler_validate_node_map(self) ==
    IF ~HasTrigger(self.nodes)
    THEN <<"Workflow must have at least one trigger node">>
    ELSE IF \E i \in 1..Len(self.edges) : self.edges[i].source \notin DOMAIN self.node_map
    THEN <<"Edge source not found">>
    ELSE IF \E i \in 1..Len(self.edges) : self.edges[i].target \notin DOMAIN self.node_map
    THEN <<"Edge target not found">>
    ELSE <<>>

\* _validate: the error it raises (a one-element sequence), <<>> when it passes
WorkflowCompiler_validate(self) ==
    LET node_ids == NodeIdsOf(self.nodes)
        bad == {i \in 1..Len(self.edges) :
                    \/ self.edges[i].source \notin node_ids
                    \/ self.edges[i].target \notin node_ids}
        first == CHOOSE i \in bad : \A j \in bad : i <= j
    IN  IF ~HasTrigger(self.nodes)
        THEN <<"Workflow must have at least one trigger node">>
        ELSE IF bad = {} THEN <<>>
        ELSE IF self.edges[first].source \notin node_ids
        THEN <<"Edge source not found">>
        ELSE <<"Edge target not found">>

\* a slip the code could have made: the edges read back from adjacency
WorkflowCompiler_generate_code_adjacency(self) ==
    [handlers |-> [i \in 1..Len(self.nodes) |->
                      [id |-> self.nodes[i].id, type |-> self.nodes[i].type]],
     add_node |-> [i \in 1..Len(self.nodes) |-> self.nodes[i].id],
     add_edge |-> [i \in 1..Len(self.edges) |->
                      LET source == self.edges[i].source
                          k == Cardinality({j \in 1..i : self.edges[j].source = source})
                      IN  <<source, self.adjacency[source][k]>>],
     entry_point |-> IF HasTrigger(self.nodes) THEN FirstTrigger(self.nodes) ELSE NoId]

\* _generate_code: one handler per node, add_node per node, add_edge per
\* edge, the entry point; all read from self.nodes and self.edges
WorkflowCompiler_generate_code(self) ==
    [handlers |-> [i \in 1..Len(self.nodes) |->
                      [id |-> self.nodes[i].id, type |-> self.nodes[i].type]],
     add_node |-> [i \in 1..Len(self.nodes) |-> self.nodes[i].id],
     add_edge |-> [i \in 1..Len(self.edges) |->
                      <<self.edges[i].source, self.edges[i].target>>],
     entry_point |-> IF HasTrigger(self.nodes) THEN FirstTrigger(self.nodes) ELSE NoId]

\* compile: what the call returns or raises
WorkflowCompiler_compile(self, graph_data) ==
    LET loaded == WorkflowCompiler_load(self, graph_data)
        error == WorkflowCompiler_validate(loaded)
    IN  IF error # <<>> THEN Raised(error)
        ELSE Returned(WorkflowCompiler_generate_code(loaded))

----------------------------------------------------------------------------
(* LangGraphCompiler (services/compiler/langgraph_compiler.py) *)

Str_messages == <<"m", "e", "s", "s", "a", "g", "e", "s">>
Str_data == <<"d", "a", "t", "a">>
Str_df == <<"_", "d", "f">>
Str_output == <<"_", "o", "u", "t", "p", "u", "t">>

\* compile, lines 52-65
DefaultSchema ==
    <<Field(Str_messages, "list", "add_messages"), Field(Str_data, "dict", "none")>>

FieldNames(schema) == {schema[i].name : i \in 1..Len(schema)}

\* compile, lines 72-111: the field names one node contributes, in order
InferredKeys(node) ==
    IF node.output_key # NoKey
    THEN <<sanitize_identifier(node.output_key)>>
    ELSE IF node.type = "dataset"
    THEN <<sanitize_identifier(node.id \o Str_df)>>
    ELSE IF node.type = "llm"
    THEN <<sanitize_identifier(node.id \o Str_output)>>
    ELSE <<>>

\* a slip the code could have made: the test against existing_fields left out
InferFieldsAlways(schema, nodes, i) ==
    LET keyed == SelectSeq(SubSeq(nodes, i, Len(nodes)), LAMBDA n : InferredKeys(n) # <<>>)
    IN  schema \o [j \in 1..Len(keyed) |-> Field(InferredKeys(keyed[j])[1], "Any", "none")]

\* compile, lines 69-111: the loop over the nodes from node i on
RECURSIVE InferFields(_, _, _)
InferFields(schema, nodes, i) ==
    IF i > Len(nodes) THEN schema
    ELSE LET keys == InferredKeys(nodes[i])
         IN  InferFields(
                IF keys # <<>> /\ keys[1] \notin FieldNames(schema)
                THEN Append(schema, Field(keys[1], "Any", "none"))
                ELSE schema,
                nodes, i + 1)

\* a slip the code could have made: a field inferred from a node output
\* written over the declared field of the same name
ResolveSchemaOverride(workflow_data) ==
    LET nodes == workflow_data.nodes
        resolved == InferFields(IF workflow_data.state_schema = <<>> THEN DefaultSchema
                                ELSE workflow_data.state_schema,
                                nodes, 1)
    IN  [i \in 1..Len(resolved) |->
            IF \E n \in 1..Len(nodes) : InferredKeys(nodes[n]) = <<resolved[i].name>>
            THEN Field(resolved[i].name, "Any", "none")
            ELSE resolved[i]]

\* compile, lines 43-111: the schema the rest of compile works on
ResolveSchema(workflow_data) ==
    InferFields(IF workflow_data.state_schema = <<>> THEN DefaultSchema
                ELSE workflow_data.state_schema,
                workflow_data.nodes, 1)

\* compile appends to the caller's state_schema list when that list is not
\* empty (an empty one is replaced by a new local list): the caller's graph
\* after the call
LangGraphCompiler_graph_after(workflow_data) ==
    IF workflow_data.state_schema = <<>> THEN workflow_data
    ELSE [workflow_data EXCEPT !.state_schema = ResolveSchema(workflow_data)]

EdgeErrors(nodes, edge) ==
    (IF edge.source \notin NodeIdsOf(nodes)
     THEN <<[error |-> "Edge source not found", id |-> edge.source]>> ELSE <<>>)
    \o
    (IF edge.target \notin NodeIdsOf(nodes)
     THEN <<[error |-> "Edge target not found", id |-> edge.target]>> ELSE <<>>)

RECURSIVE AllEdgeErrors(_, _, _)
AllEdgeErrors(nodes, edges, i) ==
    IF i > Len(edges) THEN <<>>
    ELSE EdgeErrors(nodes, edges[i]) \o AllEdgeErrors(nodes, edges, i + 1)

\* _validate: the accumulated error list; compile raises when it is not empty
LangGraphCompiler_validate(state_schema, nodes, edges) ==
    (IF Len(state_schema) > 0 /\ ~IsInjective([i \in 1..Len(state_schema) |-> state_schema[i].name])
     THEN <<[error |-> "Duplicate field names in state schema", id |-> NoId]>> ELSE <<>>)
    \o
    (IF Len(nodes) = 0 THEN <<[error |-> "No nodes defined", id |-> NoId]>> ELSE <<>>)
    \o
    (IF Len(nodes) > 0 /\ ~IsInjective([i \in 1..Len(nodes) |-> nodes[i].id])
     THEN <<[error |-> "Duplicate node IDs", id |-> NoId]>> ELSE <<>>)
    \o
    (IF Len(nodes) > 0 /\ Len(edges) > 0 THEN AllEdgeErrors(nodes, edges, 1) ELSE <<>>)

\* _map_type
map_type(flowai_type) ==
    IF flowai_type \in {"str", "int", "float", "bool", "list", "dict", "Any"}
    THEN flowai_type ELSE "Any"

\* _generate_state_class: one line per field
generate_state_class(state_schema) ==
    [i \in 1..Len(state_schema) |->
        LET f == state_schema[i]
        IN  IF f.reducer = "add"
            THEN [name |-> f.name, type |-> map_type(f.type), annotated |-> "add"]
            ELSE IF f.reducer = "add_messages"
            THEN [name |-> f.name, type |-> "list", annotated |-> "add_messages"]
            ELSE [name |-> f.name, type |-> map_type(f.type), annotated |-> "none"]]

\* _generate_imports: the optional import groups
generate_imports(state_schema, nodes) ==
    {"typing", "langgraph"}
    \cup (IF \E i \in 1..Len(state_schema) : state_schema[i].reducer = "add_messages"
          THEN {"add_messages"} ELSE {})
    \cup (IF \E i \in 1..Len(state_schema) : state_schema[i].reducer = "add"
          THEN {"operator.add"} ELSE {})
    \cup (IF \E i \in 1..Len(nodes) : nodes[i].type = "llm" THEN {"langchain"} ELSE {})
    \cup (IF \E i \in 1..Len(nodes) : nodes[i].type = "api" THEN {"httpx"} ELSE {})
    \cup (IF \E i \in 1..Len(nodes) : nodes[i].type = "dataset" THEN {"pandas"} ELSE {})

\* _generate_node_functions: one function per node, dispatched on its type
generate_node_functions(nodes) ==
    [i \in 1..Len(nodes) |->
        [id |-> nodes[i].id,
         unit |-> IF nodes[i].type \in {"llm", "api", "trigger", "output",
                                        "conditional", "dataset"}
                  THEN nodes[i].type ELSE "generic"]]

\* an expression or output the user has left blank
EmptyExpression == [field |-> "", equals |-> ""]

\* edges_by_source: the edges grouped by source, the sources in the order
\* of their first edge
edges_by_source(edges) ==
    LET firsts == SelectSeq([i \in 1..Len(edges) |-> i],
                            LAMBDA i : \A j \in 1..(i - 1) : edges[j].source # edges[i].source)
    IN  [k \in 1..Len(firsts) |->
            [source |-> edges[firsts[k]].source,
             edges |-> SelectSeq(edges, LAMBDA e : e.source = edges[firsts[k]].source)]]

\* _generate_routing_functions, lines 765-809: the function of one source.
\* The loop passes over the conditional edges without routes and takes the
\* first that has some; a route without expression or output adds no
\* branch, and the keyword of a branch follows the index of its route.
routing_function(source, conditional_edges) ==
    LET with_routes == SelectSeq(conditional_edges, LAMBDA e : e.data.routes # <<>>)
    IN  IF with_routes = <<>>
        THEN [source |-> source, branches |-> <<>>, else_branch |-> "none"]
        ELSE LET edge_data == with_routes[1].data
                 routes == edge_data.routes
                 kept == SelectSeq([i \in 1..Len(routes) |-> i],
                                   LAMBDA i : /\ routes[i].expression # EmptyExpression
                                              /\ routes[i].output # "")
             IN  [source |-> source,
                  branches |-> [k \in 1..Len(kept) |->
                                  [keyword |-> IF kept[k] = 1 THEN "if" ELSE "elif",
                                   expression |-> routes[kept[k]].expression,
                                   output |-> routes[kept[k]].output]],
                  else_branch |-> IF edge_data.defaultTarget # None
                                  THEN "return default" ELSE "raise"]

\* _generate_routing_functions: one function per source that has a
\* conditional edge
generate_routing_functions(edges) ==
    LET groups == edges_by_source(edges)
        conditional(k) == SelectSeq(groups[k].edges, LAMBDA e : e.type = "conditional")
        sources == SelectSeq([k \in 1..Len(groups) |-> k], LAMBDA k : conditional(k) # <<>>)
    IN  [n \in 1..Len(sources) |->
            routing_function(groups[sources[n]].source, conditional(sources[n]))]

\* _generate_graph_construction, lines 894-905: the dict output -> target
\* of the routes that have both, then the key default; kept as its items
\* in insertion order
path_map(edge_data) ==
    LET Put(items, key, value) ==
            IF \E i \in 1..Len(items) : items[i][1] = key
            THEN [i \in 1..Len(items) |->
                    IF items[i][1] = key THEN <<key, value>> ELSE items[i]]
            ELSE Append(items, <<key, value>>)
        RECURSIVE Items(_)
        Items(i) ==
            IF i = 0 THEN <<>>
            ELSE LET route == edge_data.routes[i]
                 IN  IF route.output # "" /\ route.target # NoId
                     THEN Put(Items(i - 1), route.output, route.target)
                     ELSE Items(i - 1)
        routed == Items(Len(edge_data.routes))
    IN  IF edge_data.defaultTarget # None
        THEN Put(routed, "default", edge_data.defaultTarget[1])
        ELSE routed

\* _generate_graph_construction: add_node per node, START to the first
\* trigger, then per source either the conditional wiring of its first
\* conditional edge (nothing when that edge has no routes) or add_edge per
\* edge, END after every output node
generate_graph_construction(nodes, edges) ==
    LET groups == edges_by_source(edges)
        RECURSIVE Wired(_)
        Wired(k) ==
            IF k > Len(groups) THEN <<>>
            ELSE LET source == groups[k].source
                     source_edges == groups[k].edges
                     conditional_edges ==
                         SelectSeq(source_edges, LAMBDA e : e.type = "conditional")
                 IN  (IF conditional_edges # <<>>
                      THEN IF conditional_edges[1].data.routes # <<>>
                           THEN <<[call |-> "add_conditional_edges", source |-> source,
                                   target |-> NoId,
                                   path_map |-> path_map(conditional_edges[1].data)]>>
                           ELSE <<>>
                      ELSE [i \in 1..Len(source_edges) |->
                              [call |-> "add_edge", source |-> source,
                               target |-> source_edges[i].target, path_map |-> <<>>]])
                     \o Wired(k + 1)
        outs == SelectSeq(nodes, LAMBDA n : n.type = "output")
    IN  [add_node |-> [i \in 1..Len(nodes) |-> nodes[i].id],
         start |-> IF HasTrigger(nodes) THEN FirstTrigger(nodes) ELSE NoId,
         edges |-> Wired(1),
         end |-> [i \in 1..Len(outs) |-> outs[i].id]]

\* compile: what the call returns or raises
LangGraphCompiler_compile(workflow_data) ==
    LET state_schema == ResolveSchema(workflow_data)
        nodes == workflow_data.nodes
        edges == workflow_data.edges
        errors == LangGraphCompiler_validate(state_schema, nodes, edges)
    IN  IF errors # <<>> THEN Raised(errors)
        ELSE Returned(
                [imports |-> generate_imports(state_schema, nodes),
                 state_class |-> generate_state_class(state_schema),
                 node_functions |-> generate_node_functions(nodes),
                 routing_functions |-> generate_routing_functions(edges),
                 graph_construction |-> generate_graph_construction(nodes, edges),
                 using_default_schema |-> workflow_data.state_schema = <<>>])

----------------------------------------------------------------------------
(* Execution records (models/execution.py) *)

\* Execution(input_data=..., status=PENDING): the other columns are NULL
NewExecution(input_data) ==
    [status |-> "pending", input_data |-> input_data, output_data |-> None,
     error_message |-> None, started_at |-> None, completed_at |-> None]

\* ExecutionLog(node_id, level, message)
Log(node_id, level, message) ==
    [node_id |-> node_id, level |-> level, message |-> message]

Terminal(status) == status \in {"completed", "failed", "cancelled"}

----------------------------------------------------------------------------
(* WorkflowExecutor (services/executor/executor.py) and the node handlers *)

\* the graphs of the executions: node i is called n<i>; the first node is a
\* trigger or not, the later nodes call out (api) or have no handler
\* (dataset).  Edges are listed by source, then by target.
NodeName(i) == "n" \o ToString(i)

UnknownName == "zz"

ExecNodeTypes == {"trigger", "llm", "api", "dataset", "custom"}

TypesAt(i) == IF i = 1 THEN {"trigger", "api"} ELSE {"api", "dataset"}

ExecNodeLists(n) ==
    {[i \in 1..n |-> [id |-> NodeName(i), type |-> t[i]]] :
        t \in {u \in [1..n -> ExecNodeTypes] : \A i \in 1..n : u[i] \in TypesAt(i)}}

\* every edge between the n nodes, then one edge to and one from an unknown id
EdgeEnds(n) ==
    [k \in 1..(n * n) |->
        <<NodeName(((k - 1) \div n) + 1), NodeName(((k - 1) % n) + 1)>>]
    \o (IF n = 0 THEN <<>>
        ELSE << <<NodeName(1), UnknownName>>, <<UnknownName, NodeName(1)>> >>)

RECURSIVE IncreasingSeqs(_, _, _)
IncreasingSeqs(lo, hi, len) ==
    IF len = 0 THEN {<<>>}
    ELSE {<<>>} \cup
         UNION {{<<i>> \o s : s \in IncreasingSeqs(i + 1, hi, len - 1)} : i \in lo..hi}

\* the routes the editor stores on the conditional edges of one source:
\* one route per target, in edge order, on the field sentiment
RouteValue(i) == IF i = 1 THEN "positive" ELSE IF i = 2 THEN "negative" ELSE "neutral"

Sentiments == {"positive", "negative"}

RoutesTo(targets) ==
    [i \in 1..Len(targets) |->
        [expression |-> [field |-> "sentiment", equals |-> RouteValue(i)],
         output |-> RouteValue(i),
         target |-> targets[i]]]

PlainEdgeData == [routes |-> <<>>, defaultTarget |-> None]

\* the graph with the given nodes and edge ends; with conditional, the edges
\* that leave the first node are conditional edges and share their routes,
\* the last target being the default target
ExecGraph(nodes, ends, conditional) ==
    LET first == NodeName(1)
        targets == LET from == SelectSeq(ends, LAMBDA p : p[1] = first)
                   IN  [i \in 1..Len(from) |-> from[i][2]]
        shared == [routes |-> RoutesTo(targets),
                   defaultTarget |-> Some(targets[Len(targets)])]
    IN  [nodes |-> nodes,
         edges |-> [i \in 1..Len(ends) |->
                      IF conditional /\ ends[i][1] = first
                      THEN [source |-> ends[i][1], target |-> ends[i][2],
                            type |-> "conditional", data |-> shared]
                      ELSE [source |-> ends[i][1], target |-> ends[i][2],
                            type |-> "default", data |-> PlainEdgeData]]]

\* nodes = {node["id"]: node for node in ...}: a later node with the same id
\* replaces an earlier one
NodesDict(graph_data) ==
    [id \in NodeIdsOf(graph_data.nodes) |-> LastNodeWithId(graph_data.nodes, id)]

\* adjacency.get(node_id, []): the targets of the node's edges, in edge
\* order, whatever the type of the edge
next_nodes(graph_data, node_id) == TargetsFrom(graph_data.edges, node_id)

\* NodeHandlerFactory.handlers
Handlers == {"trigger", "llm", "api", "conditional", "output"}

\* the handlers that await an external response
ExternalTypes == {"llm", "api"}

\* str(e) of what an external call raises: httpx.ReadTimeout carries an
\* empty message, httpx.ConnectError a text
HandlerErrors == {"", "All connection attempts failed"}

DictSet(d, key, value) ==
    [k \in DOMAIN d \cup {key} |-> IF k = key THEN value ELSE d[k]]

\* execution.input_data or {}
OrEmptyDict(x) == IF x = None THEN [k \in {} |-> k] ELSE x[1]

\* TriggerNodeHandler.execute, the node carrying no message
TriggerNodeHandler_execute(node, s) == [s EXCEPT !.current_node = Some(node.id)]

\* APINodeHandler.execute once the response is there: the result is stored
\* under the default output key
APINodeHandler_execute(node, s) ==
    [s EXCEPT !.data = DictSet(s.data, "api_response", "200 " \o node.id),
              !.current_node = Some(node.id)]

\* a slip the code could have made: the message list assigned, not appended to
LLMNodeHandler_execute_assign(node, s) ==
    LET content == "reply of " \o node.id
    IN  [s EXCEPT !.data = DictSet(s.data, "llm_output", content),
                  !.messages = <<[role |-> "assistant", content |-> content]>>,
                  !.current_node = Some(node.id)]

\* LLMNodeHandler.execute once the model has answered: the answer is stored
\* under the default output key and appended to the messages
LLMNodeHandler_execute(node, s) ==
    LET content == "reply of " \o node.id
    IN  [s EXCEPT !.data = DictSet(s.data, "llm_output", content),
                  !.messages = Append(s.messages, [role |-> "assistant", content |-> content]),
                  !.current_node = Some(node.id)]

\* a slip the code could have made: the visited check left out
NeverVisited(node_id, seen) == FALSE

\* if node_id in visited: return
AlreadyVisited(node_id, seen) == node_id \in seen

\* a slip the code could have made: the node not recorded as visited
VisitedAddNothing(seen, node_id) == seen

\* visited.add(node_id)
VisitedAdd(seen, node_id) == seen \cup {node_id}

\* the log entries the claims read
IsNodeStart(l) ==
    l.node_id # None /\ l.message \in {"Executing node: " \o t : t \in ExecNodeTypes}

IsNodeComplete(l) ==
    l.node_id # None /\ l.message \in {"Node completed: " \o t : t \in ExecNodeTypes}

IsNodeFailed(l) == l.node_id # None /\ l.level = "error"

\* the branch an if/elif chain over the routes takes: the target of the
\* first route whose expression holds, else the default target
Holds(expression, data) ==
    expression.field \in DOMAIN data /\ data[expression.field] = expression.equals

FirstMatchingTarget(edge_data, data) ==
    LET routes == edge_data.routes
        matching == {i \in 1..Len(routes) : Holds(routes[i].expression, data)}
    IN  IF matching # {}
        THEN Some(routes[CHOOSE i \in matching : \A j \in matching : i <= j].target)
        ELSE edge_data.defaultTarget

----------------------------------------------------------------------------
(* One execution run by WorkflowExecutor *)

NoCallee == ""

InitRunLocals ==
    /\ stack = <<>>
    /\ callee = NoCallee
    /\ state = [data |-> OrEmptyDict(None), current_node |-> None, messages |-> <<>>]
    /\ visited = {}
    /\ calls = {}
    /\ runs = 0
    /\ cancel = None

\* the executor at rest, for the behaviours that do not run it
ExecIdle ==
    /\ exGraph = ExecGraph(<<>>, <<>>, FALSE)
    /\ execution = NewExecution(None)
    /\ logs = <<>>
    /\ pc = "idle"
    /\ InitRunLocals

\* the compilers at rest, for the behaviours that do not call them
CompileIdle ==
    /\ graph = [nodes |-> <<>>, edges |-> <<>>, state_schema |-> <<>>]
    /\ graph0 = graph
    /\ wc = WorkflowCompiler_init
    /\ wcIn = graph
    /\ wcOut = NotCalled
    /\ wcCompiles = 0
    /\ lgOut = NotCalled
    /\ lgFirst = NotCalled
    /\ lgCompiles = 0

\* no helper function called
HelperIdle ==
    /\ args = None
    /\ ret = NotCalled

\* the background task at rest, no websocket connected
BgIdle ==
    /\ task = "none"
    /\ E2B_API_KEY = ""
    /\ sandbox = "none"
    /\ ws = [pc |-> "none", execution |-> NewExecution(None), sent_log_count |-> 0, polls |-> 0]
    /\ events = <<>>

----------------------------------------------------------------------------
(* The compilers applied to bounded graphs.  The two compilers share      *)
(* nothing, so a behaviour exercises one of them.                         *)

InitCompile ==
    /\ graph \in Graphs
    /\ graph0 = graph
    /\ wc = WorkflowCompiler_init
    /\ wcIn = graph
    /\ wcOut = NotCalled
    /\ wcCompiles = 0
    /\ lgOut = NotCalled
    /\ lgFirst = NotCalled
    /\ lgCompiles = 0
    /\ ExecIdle
    /\ BgIdle
    /\ HelperIdle

\* wc.compile(graph_data) on the one instance
WCCall(graph_data) ==
    /\ wcCompiles < MaxCompiles
    /\ lgCompiles = 0
    /\ wc' = WorkflowCompiler_load(wc, graph_data)
    /\ wcIn' = graph_data
    /\ wcOut' = WorkflowCompiler_compile(wc, graph_data)
    /\ wcCompiles' = wcCompiles + 1
    /\ UNCHANGED <<graph, graph0, lgOut, lgFirst, lgCompiles, evars, bvars, wvars, hvars>>

\* the instance compiles the graph under test
WCCompile ==
    /\ IsWCGraph(graph)
    /\ WCCall(graph)

\* the instance compiles some other graph
WCCompileOther ==
    /\ IsWCGraph(graph)
    /\ \E other \in OtherGraphs : WCCall(other)

\* LangGraphCompiler().compile(graph): the compiler keeps no state between
\* calls, the caller's graph does
LGCompile ==
    /\ lgCompiles < MaxCompiles
    /\ wcCompiles = 0
    /\ lgOut' = LangGraphCompiler_compile(graph)
    /\ lgFirst' = IF lgCompiles = 0 THEN LangGraphCompiler_compile(graph) ELSE lgFirst
    /\ graph' = LangGraphCompiler_graph_after(graph)
    /\ lgCompiles' = lgCompiles + 1
    /\ UNCHANGED <<graph0, wc, wcIn, wcOut, wcCompiles, evars, bvars, wvars, hvars>>

NextCompile == WCCompile \/ WCCompileOther \/ LGCompile

SpecCompile == InitCompile /\ [][NextCompile]_vars

----------------------------------------------------------------------------
(* The runs of WorkflowExecutor *)

InitExec ==
    /\ \E n \in 0..MaxExecNodes :
       \E nodes \in ExecNodeLists(n) :
       \E idx \in IncreasingSeqs(1, Len(EdgeEnds(n)), MaxExecEdges) :
       \E conditional \in BOOLEAN :
            exGraph = ExecGraph(nodes, [i \in 1..Len(idx) |-> EdgeEnds(n)[idx[i]]], conditional)
    /\ \E sentiment \in Sentiments :
            execution = NewExecution(Some([sentiment |-> sentiment]))
    /\ logs = <<>>
    /\ pc = "pending"
    /\ InitRunLocals
    /\ CompileIdle
    /\ BgIdle
    /\ HelperIdle

\* execute, lines 108-123: the except block, entered with the record ex and
\* the logs lg the run has written; the exception propagates to the caller
Failed(ex, lg, e) ==
    /\ execution' = [ex EXCEPT !.status = "failed",
                               !.completed_at = Some("utcnow"),
                               !.error_message = Some(e)]
    /\ logs' = Append(lg, Log(None, "error", "Workflow execution failed: " \o e))
    /\ pc' = "done"
    /\ stack' = <<>>
    /\ callee' = NoCallee

\* execute, lines 39-92: up to the call of _execute_from_node on the entry
WorkflowExecutor_execute ==
    LET running == [execution EXCEPT !.status = "running", !.started_at = Some("utcnow")]
        lg == Append(logs, Log(None, "info", "Workflow execution started"))
        nodes == NodesDict(exGraph)
        edges == exGraph.edges
        bad == {i \in 1..Len(edges) : edges[i].source \notin DOMAIN nodes}
        first_bad == CHOOSE i \in bad : \A j \in bad : i <= j
    IN  /\ runs' = runs + 1
        /\ IF bad # {}
           THEN /\ Failed(running, lg, "'" \o edges[first_bad].source \o "'")
                /\ UNCHANGED <<state, visited, calls>>
           ELSE IF ~HasTrigger(exGraph.nodes)
           THEN /\ Failed(running, lg, "No trigger node found")
                /\ UNCHANGED <<state, visited, calls>>
           ELSE /\ execution' = running
                /\ logs' = lg
                /\ state' = [data |-> OrEmptyDict(execution.input_data),
                             current_node |-> None, messages |-> <<>>]
                /\ visited' = {}
                /\ calls' = {}
                /\ stack' = <<>>
                /\ callee' = FirstTrigger(exGraph.nodes)
                /\ pc' = "enter"
        /\ UNCHANGED <<exGraph, cancel, cvars, bvars, wvars, hvars>>

\* the background task calls execute on the new execution
Execute ==
    /\ pc = "pending"
    /\ WorkflowExecutor_execute

\* _execute_from_node, lines 140-164: from the visited check to the handler
\* call; a handler that awaits nothing returns within the step
NodeEnter ==
    /\ pc = "enter"
    /\ LET node_id == callee
           nodes == NodesDict(exGraph)
           caller == IF stack = <<>> THEN NoCallee ELSE stack[Len(stack)].node_id
       IN  IF AlreadyVisited(node_id, visited)
           THEN /\ pc' = "next"
                /\ callee' = NoCallee
                /\ UNCHANGED <<execution, logs, stack, state, visited, calls>>
           ELSE IF node_id \notin DOMAIN nodes
           THEN /\ visited' = VisitedAdd(visited, node_id)
                /\ Failed(execution, logs, "Node " \o node_id \o " not found")
                /\ UNCHANGED <<state, calls>>
           ELSE LET node == nodes[node_id]
                    lg == Append(logs, Log(Some(node_id), "info",
                                           "Executing node: " \o node.type))
                    frame == [node_id |-> node_id, i |-> 0]
                IN  /\ visited' = VisitedAdd(visited, node_id)
                    /\ calls' = calls \cup {<<caller, node_id>>}
                    /\ IF node.type \notin Handlers
                       THEN /\ Failed(execution, lg, "Unsupported node type: " \o node.type)
                            /\ UNCHANGED state
                       ELSE IF node.type \in ExternalTypes
                       THEN /\ logs' = lg
                            /\ stack' = Append(stack, frame)
                            /\ callee' = NoCallee
                            /\ pc' = "await"
                            /\ UNCHANGED <<execution, state>>
                       ELSE /\ state' = TriggerNodeHandler_execute(node, state)
                            /\ logs' = Append(lg, Log(Some(node_id), "info",
                                                      "Node completed: " \o node.type))
                            /\ stack' = Append(stack, frame)
                            /\ callee' = NoCallee
                            /\ pc' = "next"
                            /\ UNCHANGED execution
    /\ UNCHANGED <<exGraph, runs, cancel, cvars, bvars, wvars, hvars>>

\* _execute_from_node, lines 164-173: the external call returns
HandlerReturn ==
    /\ pc = "await"
    /\ LET node == NodesDict(exGraph)[stack[Len(stack)].node_id]
       IN  /\ state' = IF node.type = "llm"
                       THEN LLMNodeHandler_execute(node, state)
                       ELSE APINodeHandler_execute(node, state)
           /\ logs' = Append(logs, Log(Some(node.id), "info",
                                       "Node completed: " \o node.type))
    /\ pc' = "next"
    /\ UNCHANGED <<exGraph, execution, stack, callee, visited, calls, runs, cancel,
                   cvars, bvars, wvars, hvars>>

\* _execute_from_node, lines 175-183: the external call raises; the node
\* failure is logged and the exception reaches the except block of execute
HandlerRaise ==
    /\ pc = "await"
    /\ \E e \in HandlerErrors :
         LET node_id == stack[Len(stack)].node_id
         IN  Failed(execution,
                    Append(logs, Log(Some(node_id), "error", "Node failed: " \o e)),
                    e)
    /\ UNCHANGED <<exGraph, state, visited, calls, runs, cancel, cvars, bvars, wvars, hvars>>

\* _execute_from_node, lines 186-195: the loop calls the next successor.
\* The depth of the recursion is at most the number of visited ids.
LoopNext ==
    /\ pc = "next"
    /\ Len(stack) <= Len(exGraph.nodes) + 1
    /\ LET top == stack[Len(stack)]
           successors == next_nodes(exGraph, top.node_id)
       IN  /\ top.i < Len(successors)
           /\ callee' = successors[top.i + 1]
           /\ stack' = [stack EXCEPT ![Len(stack)].i = top.i + 1]
    /\ pc' = "enter"
    /\ UNCHANGED <<exGraph, execution, logs, state, visited, calls, runs, cancel,
                   cvars, bvars, wvars, hvars>>

\* the loop is exhausted and the call returns; when the call on the entry
\* returns, execute marks the execution completed (lines 94-106)
LoopEnd ==
    /\ pc = "next"
    /\ LET top == stack[Len(stack)]
           successors == next_nodes(exGraph, top.node_id)
       IN  /\ top.i >= Len(successors)
           /\ stack' = SubSeq(stack, 1, Len(stack) - 1)
           /\ IF Len(stack) = 1
              THEN /\ execution' = [execution EXCEPT !.status = "completed",
                                                     !.completed_at = Some("utcnow"),
                                                     !.output_data = Some(state.data)]
                   /\ logs' = Append(logs, Log(None, "info", "Workflow execution completed"))
                   /\ pc' = "done"
              ELSE /\ pc' = "next"
                   /\ UNCHANGED <<execution, logs>>
    /\ UNCHANGED <<exGraph, callee, state, visited, calls, runs, cancel, cvars, bvars, wvars, hvars>>

\* execute, lines 78-82: "data": execution.input_data or {} puts the dict of
\* input_data itself into the working state when that dict is not empty
\* (None and {} give a new dict), and the handlers store their results in
\* that dict: what the Execution object of the run holds as input_data.
\* The row is written only where execute assigns a column.
input_data_object ==
    IF /\ execution.input_data # None
       /\ execution.input_data[1] # OrEmptyDict(None)
       /\ state.data # OrEmptyDict(None)
    THEN Some(state.data)
    ELSE execution.input_data

NextExec == Execute \/ NodeEnter \/ HandlerReturn \/ HandlerRaise \/ LoopNext \/ LoopEnd

SpecExec == InitExec /\ [][NextExec]_vars

\* the event loop runs a task that can take a step, and an external call
\* returns or raises
SpecExecFair == SpecExec /\ WF_vars(NextExec)

\* the runs over the graphs of a trigger followed by llm nodes, api nodes and
\* nodes of a type no part of the program knows
InitExecTyped ==
    /\ \E n \in 0..MaxExecNodes :
       \E t \in [2..n -> {"llm", "api", "custom"}] :
       \E idx \in IncreasingSeqs(1, Len(EdgeEnds(n)), MaxExecEdges) :
            exGraph = ExecGraph([i \in 1..n |-> [id |-> NodeName(i),
                                                 type |-> IF i = 1 THEN "trigger" ELSE t[i]]],
                                [i \in 1..Len(idx) |-> EdgeEnds(n)[idx[i]]], FALSE)
    /\ execution = NewExecution(None)
    /\ logs = <<>>
    /\ pc = "pending"
    /\ InitRunLocals
    /\ CompileIdle
    /\ BgIdle
    /\ HelperIdle

SpecExecTyped == InitExecTyped /\ [][NextExec]_vars

\* execute called again on an execution that has finished
ExecuteAgain ==
    /\ pc = "done"
    /\ runs < MaxRuns
    /\ WorkflowExecutor_execute

NextExecAgain == NextExec \/ ExecuteAgain

SpecExecAgain == InitExec /\ [][NextExecAgain]_vars

\* another session sets the status to CANCELLED while the run awaits an
\* external call
CancelRequest ==
    /\ pc = "await"
    /\ execution.status = "running"
    /\ cancel = None
    /\ execution' = [execution EXCEPT !.status = "cancelled"]
    /\ cancel' = Some(Len(logs))
    /\ UNCHANGED <<exGraph, logs, pc, stack, callee, state, visited, calls, runs,
                   cvars, bvars, wvars, hvars>>

NextExecCancel == NextExec \/ CancelRequest

SpecExecCancel == InitExec /\ [][NextExecCancel]_vars

----------------------------------------------------------------------------
(* create_execution and its background task (api/endpoints/executions.py) *)
(* running LangGraphDynamicExecutor (services/executor/langgraph_executor.py) *)

\* str(e) of the ValueError _validate raises: the error texts joined
RECURSIVE JoinErrors(_, _)
JoinErrors(errors, i) ==
    IF i > Len(errors) THEN ""
    ELSE "\n" \o errors[i].error \o JoinErrors(errors, i + 1)

ValidationMessage(errors) == "Validation errors:" \o JoinErrors(errors, 1)

\* what the sandbox calls of _execute_in_sandbox come to: the exception
\* that leaves the method, None when it returns the parsed result
SandboxOutcomes == {"ok", "create", "install", "upload", "run", "no_output", "bad_json"}

SandboxError(outcome) ==
    IF outcome = "ok" THEN None
    ELSE IF outcome = "create" THEN Some("sandbox create failed")
    ELSE IF outcome = "install" THEN Some("Failed to install dependencies: Error: pip")
    ELSE IF outcome = "upload" THEN Some("No such file or directory")
    ELSE IF outcome = "run" THEN Some("Workflow execution failed: ValueError: node")
    ELSE IF outcome = "no_output" THEN Some("No output from workflow execution")
    ELSE Some("Invalid JSON output: Expecting value")

\* the graphs of the stored workflows: no declared state schema
BgGraphs ==
    [nodes : SeqsUpTo(CompileNodePool, MaxNodes),
     edges : SeqsUpTo(CompileEdgePool, MaxEdges),
     state_schema : {<<>>}]

InitBg ==
    /\ graph \in BgGraphs
    /\ graph0 = graph
    /\ wc = WorkflowCompiler_init
    /\ wcIn = graph
    /\ wcOut = NotCalled
    /\ wcCompiles = 0
    /\ lgOut = NotCalled
    /\ lgFirst = NotCalled
    /\ lgCompiles = 0
    /\ exGraph = ExecGraph(<<>>, <<>>, FALSE)
    /\ execution = NewExecution(None)
    /\ logs = <<>>
    /\ pc = "idle"
    /\ InitRunLocals
    /\ task = "none"
    /\ E2B_API_KEY \in {"", "e2b_key"}
    /\ sandbox = "none"
    /\ ws = [pc |-> "none", execution |-> NewExecution(None), sent_log_count |-> 0, polls |-> 0]
    /\ events = <<>>
    /\ HelperIdle

\* create_execution, lines 81-113: the record is committed with status
\* PENDING and the background task is created
create_execution ==
    /\ task = "none"
    /\ \E input_data \in {None, Some([sentiment |-> "positive"])} :
         execution' = NewExecution(input_data)
    /\ task' = "scheduled"
    /\ UNCHANGED <<E2B_API_KEY, sandbox, exGraph, logs, pc, stack, callee, state, visited,
                   calls, runs, cancel, cvars, wvars, hvars>>

\* LangGraphDynamicExecutor.execute, lines 154-169: the except block
LangGraphFailed(ex, lg, e) ==
    /\ execution' = [ex EXCEPT !.status = "failed",
                               !.completed_at = Some("utcnow"),
                               !.error_message = Some(e)]
    /\ logs' = Append(lg, Log(None, "error", "Workflow execution failed: " \o e))

\* LangGraphDynamicExecutor.execute, lines 154-159: the except block up to
\* its commit of the status; lg are the logs written before
StatusFailed(ex, lg, e) ==
    /\ execution' = [ex EXCEPT !.status = "failed",
                               !.completed_at = Some("utcnow"),
                               !.error_message = Some(e)]
    /\ logs' = lg

\* _run_execution_background, lines 27-39, with execute up to the sandbox:
\* the constructor raises without an E2B key, and the task catches whatever
\* is raised and prints it
run_execution_background ==
    /\ task = "scheduled"
    /\ IF E2B_API_KEY = ""
       THEN /\ task' = "done"
            /\ UNCHANGED <<execution, logs, lgOut>>
       ELSE LET running == [execution EXCEPT !.status = "running",
                                             !.started_at = Some("utcnow")]
                lg == logs \o <<Log(None, "info", "Starting LangGraph execution"),
                                Log(None, "info", "Compiling workflow to LangGraph code")>>
                python_code == LangGraphCompiler_compile(graph)
            IN  /\ lgOut' = python_code
                /\ IF ~python_code.ok
                   THEN /\ StatusFailed(running, lg, ValidationMessage(python_code.error))
                        /\ task' = "committed"
                   ELSE /\ execution' = running
                        /\ logs' = lg \o <<Log(None, "info", "Code compilation successful"),
                                           Log(None, "info", "Initial state prepared"),
                                           Log(None, "info", "Executing in secure E2B sandbox"),
                                           Log(None, "info", "Creating E2B sandbox...")>>
                        /\ task' = "sandbox"
    /\ UNCHANGED <<E2B_API_KEY, sandbox, exGraph, pc, stack, callee, state, visited, calls,
                   runs, cancel, graph, graph0, wc, wcIn, wcOut, wcCompiles, lgFirst,
                   lgCompiles, wvars, hvars>>

\* _execute_in_sandbox, lines 244-507, and execute up to the commit of the
\* status, lines 138-142 and 154-159.  Sandbox.create raising leaves no
\* sandbox; sandbox.kill() is called at line 487 only, after the result is
\* parsed, and the except block at lines 499-507 logs and raises again.
execute_in_sandbox ==
    /\ task = "sandbox"
    /\ \E outcome \in SandboxOutcomes :
         LET e == SandboxError(outcome)
             result == OrEmptyDict(execution.input_data)
         IN  /\ IF e # None
                THEN StatusFailed(execution,
                                  Append(logs, Log(None, "error",
                                                   "Sandbox execution error: " \o e[1])),
                                  e[1])
                ELSE /\ execution' = [execution EXCEPT !.status = "completed",
                                                       !.completed_at = Some("utcnow"),
                                                       !.output_data = Some(result)]
                     /\ logs' = Append(logs, Log(None, "info", "Sandbox closed"))
             /\ sandbox' = IF outcome = "create" THEN "none"
                           ELSE IF outcome = "ok" THEN "killed"
                           ELSE "alive"
    /\ task' = "committed"
    /\ UNCHANGED <<E2B_API_KEY, exGraph, pc, stack, callee, state, visited, calls,
                   runs, cancel, cvars, wvars, hvars>>

\* execute, lines 144-152 and 161-169: the entry written after the status
\* is committed; then execute returns or raises and the task ends
final_log ==
    /\ task = "committed"
    /\ logs' = Append(logs,
                      IF execution.status = "completed"
                      THEN Log(None, "info", "Workflow execution completed")
                      ELSE Log(None, "error",
                               "Workflow execution failed: " \o execution.error_message[1]))
    /\ task' = "done"
    /\ UNCHANGED <<execution, E2B_API_KEY, sandbox, exGraph, pc, stack, callee, state,
                   visited, calls, runs, cancel, cvars, wvars, hvars>>

NextBg == create_execution \/ run_execution_background \/ execute_in_sandbox \/ final_log

SpecBg == InitBg /\ [][NextBg]_vars

----------------------------------------------------------------------------
(* execution_websocket (api/endpoints/executions.py) beside the background  *)
(* task of one execution, both on the one event loop                        *)

\* the graphs of the observed execution: at most one node, no edge
WsGraphs ==
    [nodes : SeqsUpTo(CompileNodePool, 1), edges : {<<>>}, state_schema : {<<>>}]

InitWs ==
    /\ graph \in WsGraphs
    /\ graph0 = graph
    /\ wc = WorkflowCompiler_init
    /\ wcIn = graph
    /\ wcOut = NotCalled
    /\ wcCompiles = 0
    /\ lgOut = NotCalled
    /\ lgFirst = NotCalled
    /\ lgCompiles = 0
    /\ ExecIdle
    /\ task = "none"
    /\ E2B_API_KEY \in {"", "e2b_key"}
    /\ sandbox = "none"
    /\ ws = [pc |-> "none", execution |-> NewExecution(None), sent_log_count |-> 0, polls |-> 0]
    /\ events = <<>>
    /\ HelperIdle

\* a slip the code could have made: an await between the commit of the
\* status and the final log entry
EventLoopFreeAfterCommit == task # "sandbox"

\* Sandbox.create and sandbox.run_code are plain calls inside the coroutine,
\* and execute has no await between the commit of the status and the final
\* log entry: meanwhile no other task of the event loop takes a step
EventLoopFree == task \notin {"sandbox", "committed"}

StatusEvent(ex) == [type |-> "status", status |-> ex.status]

LogEvents(rows) == [i \in 1..Len(rows) |-> [type |-> "log", log |-> rows[i]]]

CompleteEvent(ex) ==
    [type |-> "complete", status |-> ex.status, output |-> ex.output_data,
     error |-> ex.error_message]

\* a slip the code could have made: every row sent again
NewLogsAll(rows, sent_log_count) == rows

\* logs[sent_log_count:]
NewLogs(rows, sent_log_count) == SubSeq(rows, sent_log_count + 1, Len(rows))

\* lines 159-169: the execution does not exist
WsNotFound ==
    /\ ws.pc = "none"
    /\ EventLoopFree
    /\ task = "none"
    /\ events' = Append(events, [type |-> "error", error |-> "Execution not found"])
    /\ ws' = [ws EXCEPT !.pc = "closed"]
    /\ UNCHANGED <<cvars, evars, bvars, hvars>>

\* lines 159-224: the execution and its logs are read, the status and the
\* logs are sent, and the complete event when the status read is terminal
WsConnect ==
    /\ ws.pc = "none"
    /\ EventLoopFree
    /\ task # "none"
    /\ LET sent == <<StatusEvent(execution)>> \o LogEvents(logs)
       IN  IF Terminal(execution.status)
           THEN /\ events' = events \o sent \o <<CompleteEvent(execution)>>
                /\ ws' = [ws EXCEPT !.pc = "closed", !.execution = execution]
           ELSE /\ events' = events \o sent
                /\ ws' = [ws EXCEPT !.pc = "poll", !.execution = execution,
                                    !.sent_log_count = Len(logs)]
    /\ UNCHANGED <<cvars, evars, bvars, hvars>>

\* lines 227-236: after the sleep the execution is refreshed and its status sent
WsRefresh ==
    /\ ws.pc = "poll"
    /\ EventLoopFree
    /\ ws.polls < MaxPolls
    /\ events' = Append(events, StatusEvent(execution))
    /\ ws' = [ws EXCEPT !.pc = "query", !.execution = execution, !.polls = ws.polls + 1]
    /\ UNCHANGED <<cvars, evars, bvars, hvars>>

\* lines 238-276: the logs are read and the new ones sent; the loop ends with
\* the complete event when the refreshed status is terminal
WsQueryLogs ==
    /\ ws.pc = "query"
    /\ EventLoopFree
    /\ LET sent == LogEvents(NewLogs(logs, ws.sent_log_count))
       IN  IF Terminal(ws.execution.status)
           THEN /\ events' = events \o sent \o <<CompleteEvent(ws.execution)>>
                /\ ws' = [ws EXCEPT !.pc = "closed", !.sent_log_count = Len(logs)]
           ELSE /\ events' = events \o sent
                /\ ws' = [ws EXCEPT !.pc = "poll", !.sent_log_count = Len(logs)]
    /\ UNCHANGED <<cvars, evars, bvars, hvars>>

WsStep == WsNotFound \/ WsConnect \/ WsRefresh \/ WsQueryLogs

NextWs ==
    \/ create_execution
    \/ run_execution_background
    \/ execute_in_sandbox
    \/ final_log
    \/ WsNotFound
    \/ WsConnect
    \/ WsRefresh
    \/ WsQueryLogs

SpecWs == InitWs /\ [][NextWs]_vars

----------------------------------------------------------------------------
(* Conditional routing: the compiled program at a conditional source     *)

\* the first routes the editor stores on the j-th edge of a source; blank
\* names what the first route leaves empty: nothing, its expression or its
\* target
RoutesOf(j, len, blank) ==
    [i \in 1..len |->
        [expression |-> IF blank = "expression" /\ i = 1 THEN EmptyExpression
                        ELSE [field |-> "sentiment", equals |-> RouteValue(1 + ((i + j) % 3))],
         output |-> RouteValue(1 + ((i + j) % 3)),
         target |-> IF blank = "target" /\ i = 1 THEN NoId
                    ELSE IF (i + j) % 2 = 0 THEN <<"n", "2">> ELSE <<"n", "3">>]]

\* the j-th edge that leaves n1: a plain edge, or a conditional edge with
\* its routes and with or without a default target
RouteEdges(j) ==
    LET target == IF j % 2 = 1 THEN <<"n", "2">> ELSE <<"n", "3">>
    IN  {[source |-> <<"n", "1">>, target |-> target, type |-> "default"]}
        \cup
        {[source |-> <<"n", "1">>, target |-> target, type |-> "conditional",
          data |-> [routes |-> RoutesOf(j, len, blank), defaultTarget |-> default]] :
            len \in 0..MaxRoutes, blank \in {"none", "expression", "target"},
            default \in {None, Some(<<"n", "3">>)}}

\* a trigger, an llm node and a last node that is an output node or not
InitRoute ==
    /\ \E last \in {"llm", "output"} :
       \E k \in 0..MaxRouteEdges :
       \E edges \in [1..k -> UNION {RouteEdges(j) : j \in 1..k}] :
            /\ \A j \in 1..k : edges[j] \in RouteEdges(j)
            /\ graph = [nodes |-> <<[id |-> <<"n", "1">>, type |-> "trigger", output_key |-> NoKey],
                                    [id |-> <<"n", "2">>, type |-> "llm", output_key |-> NoKey],
                                    [id |-> <<"n", "3">>, type |-> last, output_key |-> NoKey]>>,
                         edges |-> edges,
                         state_schema |-> <<>>]
    /\ graph0 = graph
    /\ wc = WorkflowCompiler_init
    /\ wcIn = graph
    /\ wcOut = NotCalled
    /\ wcCompiles = 0
    /\ lgOut = NotCalled
    /\ lgFirst = NotCalled
    /\ lgCompiles = 0
    /\ ExecIdle
    /\ BgIdle
    /\ HelperIdle

\* calling a generated routing function: the output of the first branch
\* whose expression holds, else what the else branch does; None when the
\* function raises, or returns nothing for want of a body
CallRoutingFunction(fn, data) ==
    LET matching == {k \in 1..Len(fn.branches) : Holds(fn.branches[k].expression, data)}
    IN  IF matching # {}
        THEN Some(fn.branches[CHOOSE k \in matching : \A m \in matching : k <= m].output)
        ELSE IF fn.else_branch = "return default" THEN Some("default")
        ELSE None

\* the program runs in the sandbox up to the decision at a conditional
\* source.  A function whose chain starts with elif or else is a syntax
\* error of the whole program; add_conditional_edges follows the path map
\* from what the function returns; whatever is raised makes
\* LangGraphDynamicExecutor.execute mark the execution failed.
RouteDecision ==
    /\ pc = "idle"
    /\ lgCompiles > 0
    /\ lgOut.ok
    /\ \E sentiment \in {"positive", "negative", "neutral"} :
       \E w \in 1..Len(lgOut.code.graph_construction.edges) :
         LET wiring == lgOut.code.graph_construction.edges[w]
             functions == lgOut.code.routing_functions
             data == [sentiment |-> sentiment]
             fn == functions[CHOOSE k \in 1..Len(functions) :
                                functions[k].source = wiring.source]
             label == CallRoutingFunction(fn, data)
             found == {i \in 1..Len(wiring.path_map) : wiring.path_map[i][1] = label[1]}
             running == [execution EXCEPT !.status = "running",
                                          !.started_at = Some("utcnow")]
         IN  /\ wiring.call = "add_conditional_edges"
             /\ state' = [state EXCEPT !.data = data]
             /\ IF \E k \in 1..Len(functions) :
                     IF functions[k].branches = <<>>
                     THEN functions[k].else_branch # "none"
                     ELSE functions[k].branches[1].keyword # "if"
                THEN /\ LangGraphFailed(running, logs,
                                        "Workflow execution failed: SyntaxError: invalid syntax")
                     /\ UNCHANGED calls
                ELSE IF label = None
                THEN /\ LangGraphFailed(running, logs,
                                        "Workflow execution failed: ValueError: No routing condition matched and no default route specified")
                     /\ UNCHANGED calls
                ELSE IF found = {}
                THEN /\ LangGraphFailed(running, logs,
                                        "Workflow execution failed: KeyError: " \o label[1])
                     /\ UNCHANGED calls
                ELSE /\ execution' = running
                     /\ logs' = logs
                     /\ calls' = {<<wiring.source, wiring.path_map[CHOOSE i \in found : TRUE][2]>>}
    /\ pc' = "done"
    /\ UNCHANGED <<exGraph, stack, callee, visited, runs, cancel, cvars, bvars, wvars, hvars>>

NextRoute == LGCompile \/ RouteDecision

SpecRoute == InitRoute /\ [][NextRoute]_vars

----------------------------------------------------------------------------
(* Helper functions called on bounded arguments *)

\* a letter of each case, a digit, the underscore, and two characters that
\* no identifier holds
NameChars == {"a", "Z", "1", "_", "-", " "}

InitSanitize ==
    /\ args \in SeqsUpTo(NameChars, MaxNameLen) \ {<<>>}
    /\ ret = NotCalled
    /\ CompileIdle
    /\ ExecIdle
    /\ BgIdle

\* self._sanitize_identifier(name)
Sanitize ==
    /\ ret = NotCalled
    /\ ret' = Returned(sanitize_identifier(args))
    /\ UNCHANGED <<args, cvars, evars, bvars, wvars>>

SpecSanitize == InitSanitize /\ [][Sanitize]_vars

\* the alternatives of the operator group in the pattern of
\* _evaluate_simple_condition, in the order the pattern lists them
Operators ==
    << <<"=", "=">>, <<"!", "=">>, <<">">>, <<"<">>, <<">", "=">>, <<"<", "=">> >>

\* the condition the user types: field, operator and literal, with or
\* without blanks around the operator
ConditionText(field, operator, literal, spaced) ==
    LET blank == IF spaced THEN <<" ">> ELSE <<>>
    IN  field \o blank \o operator \o blank \o <<ToString(literal)>>

\* re.match(r'(\w+)\s*(==|!=|>|<|>=|<=)\s*(.+)', condition.strip()): the
\* groups, or None.  The first alternative that lets the rest of the
\* pattern match is taken, so '>' is taken where the text has '>='.
MatchCondition(condition) ==
    LET n == Len(condition)
        IsWordPrefix(k) == \A i \in 1..k : condition[i] \in IdentifierChars
        word == CHOOSE k \in 0..n : IsWordPrefix(k) /\ (k < n => ~IsWordPrefix(k + 1))
        SkipBlanks(p) == CHOOSE q \in p..(n + 1) :
                            /\ \A i \in p..(q - 1) : condition[i] = " "
                            /\ q <= n => condition[q] # " "
        at == SkipBlanks(word + 1)
        Fits(o) == /\ at + Len(Operators[o]) <= n
                   /\ SubSeq(condition, at, at + Len(Operators[o]) - 1) = Operators[o]
        fitting == {o \in 1..Len(Operators) : Fits(o)}
    IN  IF word = 0 \/ fitting = {} THEN None
        ELSE LET o == CHOOSE x \in fitting : \A y \in fitting : x <= y
             IN  Some([var_name |-> SubSeq(condition, 1, word),
                       operator |-> Operators[o],
                       value |-> SubSeq(condition, SkipBlanks(at + Len(Operators[o])), n)])

\* lines 215-227: the literal converted; int() raising leaves the text
ConvertValue(value) ==
    IF \A i \in 1..Len(value) : value[i] \in Digits
    THEN LET RECURSIVE Number(_)
             Number(k) == IF k = 0 THEN 0
                          ELSE 10 * Number(k - 1)
                               + (CHOOSE d \in 0..9 : ToString(d) = value[k])
         IN  [type |-> "int", number |-> Number(Len(value)), text |-> <<>>]
    ELSE [type |-> "str", number |-> 0, text |-> value]

\* ConditionalNodeHandler._evaluate_simple_condition with an int in the
\* state: an int and a str are unequal, and ordering them is a TypeError
evaluate_simple_condition(condition, data) ==
    LET match == MatchCondition(condition)
    IN  IF match = None THEN Returned(FALSE)
        ELSE LET operator == match[1].operator
                 value == ConvertValue(match[1].value)
                 var_value == data[match[1].var_name]
             IN  IF operator = <<"=", "=">>
                 THEN Returned(value.type = "int" /\ var_value = value.number)
                 ELSE IF operator = <<"!", "=">>
                 THEN Returned(~(value.type = "int" /\ var_value = value.number))
                 ELSE IF value.type # "int"
                 THEN Raised("TypeError: not supported between instances of 'int' and 'str'")
                 ELSE IF operator = <<">">> THEN Returned(var_value > value.number)
                 ELSE IF operator = <<"<">> THEN Returned(var_value < value.number)
                 ELSE IF operator = <<">", "=">> THEN Returned(var_value >= value.number)
                 ELSE Returned(var_value <= value.number)

\* the unit _generate_conditional_node emits: result = False
conditional_node_result(condition, data) == FALSE

InitCondition ==
    /\ args \in [field : {<<"x">>}, operator : {Operators[o] : o \in 1..Len(Operators)},
                  literal : 0..MaxLiteral, spaced : BOOLEAN, var_value : 0..MaxLiteral]
    /\ ret = NotCalled
    /\ CompileIdle
    /\ ExecIdle
    /\ BgIdle

\* the conditional node runs under the direct executor and as compiled unit
EvaluateCondition ==
    /\ ret = NotCalled
    /\ LET condition == ConditionText(args.field, args.operator, args.literal, args.spaced)
           data == [name \in {args.field} |-> args.var_value]
       IN  ret' = Returned([direct |-> evaluate_simple_condition(condition, data),
                            compiled |-> conditional_node_result(condition, data)])
    /\ UNCHANGED <<args, cvars, evars, bvars, wvars>>

SpecCondition == InitCondition /\ [][EvaluateCondition]_vars

\* re.sub(r'\{\{(\w+)\}\}', replace_var, text) from position p on: a
\* placeholder is replaced by str of the field, or by the default of the
\* get call when the field is absent.  The handlers' default is
\* f"{{{{ {var_name} }}}}", the name between blanks (padded); the generated
\* llm unit's default is the placeholder as written.
RECURSIVE sub_placeholders(_, _, _, _)
sub_placeholders(text, data, padded, p) ==
    LET n == Len(text)
        Word(q) == CHOOSE k \in q..(n + 1) :
                      /\ \A i \in q..(k - 1) : text[i] \in IdentifierChars
                      /\ k <= n => text[k] \notin IdentifierChars
        close == Word(p + 2)
        matches == /\ p + 4 <= n
                   /\ text[p] = "{" /\ text[p + 1] = "{"
                   /\ close > p + 2
                   /\ close + 1 <= n
                   /\ text[close] = "}" /\ text[close + 1] = "}"
        var_name == SubSeq(text, p + 2, close - 1)
        blank == IF padded THEN <<" ">> ELSE <<>>
    IN  IF p > n THEN <<>>
        ELSE IF matches
        THEN (IF var_name \in DOMAIN data THEN data[var_name]
              ELSE <<"{", "{">> \o blank \o var_name \o blank \o <<"}", "}">>)
             \o sub_placeholders(text, data, padded, close + 2)
        ELSE <<text[p]>> \o sub_placeholders(text, data, padded, p + 1)

\* templates over the braces and a letter; the state holds the field a or
\* holds no field
InitFormat ==
    /\ args \in [text : SeqsUpTo({"{", "}", "a"}, MaxTemplateLen),
                  data : {[name \in {} |-> <<>>], [name \in {<<"a">>} |-> <<"v">>]}]
    /\ ret = NotCalled
    /\ CompileIdle
    /\ ExecIdle
    /\ BgIdle

\* LLMNodeHandler._format_prompt and APINodeHandler._format_string (one
\* body), and the substitution in the unit _generate_llm_node emits
FormatTemplate ==
    /\ ret = NotCalled
    /\ ret' = Returned([direct |-> sub_placeholders(args.text, args.data, TRUE, 1),
                        compiled |-> sub_placeholders(args.text, args.data, FALSE, 1)])
    /\ UNCHANGED <<args, cvars, evars, bvars, wvars>>

SpecFormat == InitFormat /\ [][FormatTemplate]_vars

\* _generate_llm_node, lines 369-382: the field the unit of an llm node
\* writes; output_key is None when the config has no such entry, and a key
\* of nothing but blanks has output_key.strip() == ""
llm_output_key(node_id, output_key) ==
    LET key == IF output_key = None THEN <<"l", "l", "m">> \o Str_output
               ELSE output_key[1]
    IN  sanitize_identifier(IF \A i \in 1..Len(key) : key[i] = " "
                            THEN node_id \o Str_output ELSE key)

\* _generate_api_node, lines 468-472: an empty key is written as it is
api_output_key(node_id, output_key) ==
    LET key == IF output_key = None
               THEN <<"a", "p", "i", "_", "r", "e", "s", "p", "o", "n", "s", "e">>
               ELSE output_key[1]
    IN  IF key # <<>> THEN sanitize_identifier(key) ELSE key

\* _generate_dataset_node, lines 666-673
dataset_output_key(node_id, output_key) ==
    LET key == IF output_key = None THEN <<"d", "a", "t", "a", "s", "e", "t">> \o Str_df
               ELSE output_key[1]
    IN  sanitize_identifier(IF \A i \in 1..Len(key) : key[i] = " "
                            THEN node_id \o Str_df ELSE key)

\* one llm, api or dataset node, its output_key absent, empty, blank, a
\* valid identifier or one the sanitizer rewrites, and a declared schema
InitOutputKey ==
    /\ args \in [id : CompileNodeIds,
                 type : {"llm", "api", "dataset"},
                 output_key : {None} \cup {Some(k) : k \in SeqsUpTo({"k", "1", " "}, MaxNameLen)},
                 state_schema : DeclaredSchemas]
    /\ ret = NotCalled
    /\ CompileIdle
    /\ ExecIdle
    /\ BgIdle

\* compile on the graph of that one node: the field its unit writes and the
\* names of the resolved schema.  config.get("output_key") is falsy for an
\* absent and for an empty key alike.
GenerateUnit ==
    /\ ret = NotCalled
    /\ LET falsy == args.output_key = None \/ args.output_key = Some(<<>>)
           node == [id |-> args.id, type |-> args.type,
                    output_key |-> IF falsy THEN NoKey ELSE args.output_key[1]]
           workflow_data == [nodes |-> <<node>>, edges |-> <<>>,
                             state_schema |-> args.state_schema]
       IN  ret' = Returned(
                [written |-> IF args.type = "llm"
                             THEN llm_output_key(args.id, args.output_key)
                             ELSE IF args.type = "api"
                             THEN api_output_key(args.id, args.output_key)
                             ELSE dataset_output_key(args.id, args.output_key),
                 fields |-> FieldNames(ResolveSchema(workflow_data))])
    /\ UNCHANGED <<args, cvars, evars, bvars, wvars>>

SpecOutputKey == InitOutputKey /\ [][GenerateUnit]_vars

----------------------------------------------------------------------------
(* Claims about the compilers *)

\* C1: a graph with no node of type trigger does not compile: both
\* WorkflowCompiler.compile and LangGraphCompiler.compile raise and return
\* no code.
C1_NoTriggerFails ==
    /\ (wcCompiles > 0 /\ ~HasTrigger(wcIn.nodes)) => ~wcOut.ok
    /\ (lgCompiles > 0 /\ ~HasTrigger(graph0.nodes)) => ~lgOut.ok

\* C2: a graph with an edge whose source or target is not the id of a
\* declared node does not compile, under either compiler.
C2_UnknownEdgeEndFails ==
    /\ (wcCompiles > 0 /\ ~EdgeEndsKnown(wcIn.nodes, wcIn.edges)) => ~wcOut.ok
    /\ (lgCompiles > 0 /\ ~EdgeEndsKnown(graph0.nodes, graph0.edges)) => ~lgOut.ok

C2_Witness ==
    /\ wcCompiles = 2 /\ wcIn = graph /\ HasTrigger(graph.nodes)
    /\ ~EdgeEndsKnown(graph.nodes, graph.edges)
    /\ \A i \in 1..Len(graph.edges) :
          {graph.edges[i].source, graph.edges[i].target} \subseteq DOMAIN wc.node_map
    /\ ~wcOut.ok

\* C3: compiling a graph yields the same output on every call: an instance
\* of WorkflowCompiler that compiled other graphs before returns what a
\* fresh instance returns, and a second LangGraphCompiler.compile of the
\* same graph object returns what the first returned.
C3_CompileDeterministic ==
    /\ wcCompiles > 0 => wcOut = WorkflowCompiler_compile(WorkflowCompiler_init, wcIn)
    /\ lgCompiles > 0 => lgOut = lgFirst

C3_Witness ==
    /\ wcCompiles = 2 /\ wcIn = graph /\ wcOut.ok
    /\ wc.adjacency # WorkflowCompiler_load(WorkflowCompiler_init, graph).adjacency

----------------------------------------------------------------------------
(* Claims about the runs *)

\* C4: for a source node with conditional routes, the run enters exactly the
\* target of the first route, in route-list order, whose expression holds in
\* the state, and no other route's target nor the default target.
C4_FirstMatchingRouteOnly ==
    \A i \in 1..Len(exGraph.edges) :
        LET edge == exGraph.edges[i]
            chosen == FirstMatchingTarget(edge.data, OrEmptyDict(execution.input_data))
        IN  edge.type = "conditional" =>
                /\ \A c \in calls : c[1] = edge.source => Some(c[2]) = chosen
                /\ (execution.status = "completed" /\ edge.source \in visited)
                        => chosen[1] \in visited

\* C5: within one execution no node id has two node-start log entries, also
\* when the node has an edge to itself or lies on a cycle.
C5_NodeStartedOnce ==
    \A i, j \in 1..Len(logs) :
        (i < j /\ IsNodeStart(logs[i]) /\ IsNodeStart(logs[j]))
            => logs[i].node_id # logs[j].node_id

C5_Witness ==
    /\ pc = "done" /\ execution.status = "completed"
    /\ \E i \in 1..Len(exGraph.edges) :
          /\ exGraph.edges[i].source = exGraph.edges[i].target
          /\ \E k \in 1..Len(logs) :
                IsNodeStart(logs[k]) /\ logs[k].node_id = Some(exGraph.edges[i].source)

\* C6: the traversal started by execute terminates on every graph, cyclic
\* or not: the execution eventually is completed or failed.
C6_Terminates == <>(execution.status \in {"completed", "failed"})

C6_Witness ==
    /\ pc = "done" /\ execution.status = "completed"
    /\ \E i, j \in 1..Len(exGraph.edges) :
          /\ exGraph.edges[i].source # exGraph.edges[i].target
          /\ exGraph.edges[i].source = exGraph.edges[j].target
          /\ exGraph.edges[i].target = exGraph.edges[j].source
          /\ {exGraph.edges[i].source, exGraph.edges[i].target} \subseteq visited

\* C7: when a node's handler raises, the execution ends failed with
\* completed_at set and a non-empty error_message, and no node is started
\* after the failing node.
C7_HandlerRaiseFails ==
    (\E i \in 1..Len(logs) : IsNodeFailed(logs[i])) =>
        /\ execution.status = "failed"
        /\ execution.completed_at # None
        /\ execution.error_message # None
        /\ execution.error_message[1] # ""
        /\ \A i, j \in 1..Len(logs) :
              (i < j /\ IsNodeFailed(logs[i])) => ~IsNodeStart(logs[j])

\* C8: every execution create_execution creates leaves pending and reaches
\* a terminal status, whatever the background task comes to: once the task
\* has ended the status is completed, failed or cancelled.
C8_TaskEndsTerminal == task = "done" => Terminal(execution.status)

\* C9: once the status is completed, failed or cancelled, the status, the
\* output_data and the error_message never change again.
C9_TerminalImmutable ==
    [][Terminal(execution.status) =>
            /\ execution'.status = execution.status
            /\ execution'.output_data = execution.output_data
            /\ execution'.error_message = execution.error_message]_vars

\* C10: when the status is set to cancelled while the execution runs, the
\* status stays cancelled and no further node completes.
C10_CancelObserved ==
    cancel # None =>
        /\ execution.status = "cancelled"
        /\ \A i \in 1..Len(logs) : i > cancel[1] => ~IsNodeComplete(logs[i])

----------------------------------------------------------------------------
(* Claims about the websocket and the event loop *)

\* C11: the log events are delivered in creation order, none twice, and the
\* stream of an existing execution ends with exactly one complete event,
\* after which no event is sent.
C11_OrderedStreamOneComplete ==
    LET sent_logs == SelectSeq(events, LAMBDA e : e.type = "log")
        completes == {i \in 1..Len(events) : events[i].type = "complete"}
    IN  /\ Len(sent_logs) <= Len(logs)
        /\ \A i \in 1..Len(sent_logs) : sent_logs[i].log = logs[i]
        /\ completes \subseteq {Len(events)}
        /\ (ws.pc = "closed" /\ events[1].type # "error") => completes = {Len(events)}

C11_Witness ==
    /\ ws.pc = "closed"
    /\ events[Len(events)].type = "complete"
    /\ Len(logs) > 1
    /\ \E i \in 1..Len(events) : events[i].type = "log" /\ events[i].log = logs[Len(logs)]
    /\ \E i \in 1..Len(events) : events[i].type = "status" /\ events[i].status = "pending"
    /\ ws.polls > 1

\* C12: while the execution waits on the sandbox backend its task yields: a
\* status observer that has a step to take can take it before the call
\* returns.
C12_ObserverStepsDuringSandboxCall ==
    (task = "sandbox" /\ ws.pc \in {"none", "query"}) => ENABLED WsStep

----------------------------------------------------------------------------
(* C13: when several llm nodes of one run have answered, the messages    *)
(* list holds their answers as assistant messages in the order in which  *)
(* the nodes completed; no earlier answer is overwritten or dropped.     *)
C13_MessagesAppendInVisitationOrder ==
    LET done == SelectSeq(logs, LAMBDA l : l.node_id # None
                                          /\ l.message = "Node completed: llm")
    IN  state.messages = [i \in 1..Len(done) |->
                            [role |-> "assistant",
                             content |-> "reply of " \o done[i].node_id[1]]]

\* a completed run in which two llm nodes have written to the messages
C13_Witness ==
    /\ execution.status = "completed"
    /\ Len(state.messages) = 2
    /\ state.messages[1].content = "reply of n3"
    /\ state.messages[2].content = "reply of n2"

----------------------------------------------------------------------------
(* C14, as stated: when the declared state_schema holds every field name  *)
(* that inference would add, the resolved schema equals the declared one. *)
(* An empty declared schema is replaced by the default schema, so the     *)
(* statement fails for a compiled graph without a schema whose nodes      *)
(* infer nothing.                                                         *)
C14_ResolveAddsNothing ==
    (/\ lgCompiles > 0 /\ lgOut.ok
     /\ \A i \in 1..Len(graph.nodes) :
            \A j \in 1..Len(InferredKeys(graph.nodes[i])) :
                InferredKeys(graph.nodes[i])[j] \in FieldNames(graph.state_schema))
    => ResolveSchema(graph) = graph.state_schema

(* C14, amended: when the declared state_schema is not empty and holds    *)
(* every field name that inference would add, the resolved schema equals  *)
(* the declared one.                                                      *)
C14_ResolveAddsNothingToDeclared ==
    (/\ graph.state_schema # <<>>
     /\ \A i \in 1..Len(graph.nodes) :
            InferredKeys(graph.nodes[i]) = <<>>
            \/ InferredKeys(graph.nodes[i])[1] \in FieldNames(graph.state_schema))
    => ResolveSchema(graph) = graph.state_schema

\* a second compile of a graph to whose declared schema the first compile
\* has appended the inferred fields
C14_Witness ==
    /\ lgCompiles = 2
    /\ graph0.state_schema # <<>>
    /\ Len(graph.state_schema) > Len(graph0.state_schema)
    /\ ResolveSchema(graph) = graph.state_schema
    /\ lgOut = LangGraphCompiler_compile(graph)

----------------------------------------------------------------------------
(* C15: a graph in which two nodes carry the same id does not compile,   *)
(* under either compiler.                                                 *)
C15_DuplicateNodeIdsFail ==
    /\ (wcCompiles > 0
        /\ ~IsInjective([i \in 1..Len(wcIn.nodes) |-> wcIn.nodes[i].id])) => ~wcOut.ok
    /\ (lgCompiles > 0
        /\ ~IsInjective([i \in 1..Len(graph0.nodes) |-> graph0.nodes[i].id])) => ~lgOut.ok

----------------------------------------------------------------------------
(* C16: a node of a type that is not a known type is a passthrough: the   *)
(* execution does not fail on it, and the entry that follows its start in *)
(* the log is its completion, after which the run goes on.                *)
C16_UnknownTypePassthrough ==
    /\ execution.error_message # Some("Unsupported node type: custom")
    /\ \A i \in 1..Len(logs) :
          (logs[i].message = "Executing node: custom" /\ i < Len(logs))
          => logs[i + 1] = Log(logs[i].node_id, "info", "Node completed: custom")

----------------------------------------------------------------------------
(* C17: the nodes wired to END are the output nodes; in a graph without   *)
(* output node they are the nodes without outgoing edge.                  *)
C17_TerminalNodes ==
    (lgCompiles > 0 /\ lgOut.ok) =>
        LET nodes == graph0.nodes
            ends == {lgOut.code.graph_construction.end[i] :
                        i \in 1..Len(lgOut.code.graph_construction.end)}
            outputs == {nodes[i].id : i \in {k \in 1..Len(nodes) : nodes[k].type = "output"}}
            sinks == {nodes[i].id : i \in {k \in 1..Len(nodes) :
                        \A e \in 1..Len(graph0.edges) : graph0.edges[e].source # nodes[k].id}}
        IN  ends = IF outputs # {} THEN outputs ELSE sinks

----------------------------------------------------------------------------
(* C18: for every source with a conditional edge the compiled program has *)
(* exactly one routing function and exactly one conditional wiring, both  *)
(* made from the routes of the first conditional edge of that source.     *)
C18_OneRoutingDecisionPerSource ==
    (lgCompiles > 0 /\ lgOut.ok) =>
        \A e \in 1..Len(graph0.edges) :
            graph0.edges[e].type = "conditional" =>
                LET source == graph0.edges[e].source
                    first == SelectSeq(graph0.edges,
                                       LAMBDA d : d.source = source /\ d.type = "conditional")[1]
                    functions == SelectSeq(lgOut.code.routing_functions,
                                           LAMBDA f : f.source = source)
                    wirings == SelectSeq(lgOut.code.graph_construction.edges,
                                         LAMBDA w : /\ w.source = source
                                                    /\ w.call = "add_conditional_edges")
                IN  /\ functions = <<routing_function(source, <<first>>)>>
                    /\ Len(wirings) = 1
                    /\ wirings[1].path_map = path_map(first.data)

----------------------------------------------------------------------------
(* C19: at a conditional source, when no route expression holds the       *)
(* decision takes the default target if there is one and the execution    *)
(* fails if there is none; when some route expression holds, the node     *)
(* selected is the target of a route whose expression holds.              *)
C19_DefaultOnlyWhenNoRouteHolds ==
    (pc = "done" /\ lgCompiles > 0) =>
        LET source == <<"n", "1">>
            first == SelectSeq(graph0.edges, LAMBDA d : d.type = "conditional")[1].data
            holds == {i \in 1..Len(first.routes) :
                         Holds(first.routes[i].expression, state.data)}
        IN  IF holds = {}
            THEN IF first.defaultTarget # None
                 THEN calls = {<<source, first.defaultTarget[1]>>}
                 ELSE execution.status = "failed"
            ELSE calls \subseteq {<<source, first.routes[i].target>> : i \in holds}

----------------------------------------------------------------------------
(* C20: the node-start entry of a node is followed by at most one entry   *)
(* of the same node that reports its completion or its failure, and by    *)
(* exactly one once the run has ended; in particular the failure of a     *)
(* node is in the log when the status is failed.                          *)
C20_NodeStartThenOneOutcome ==
    \A i \in 1..Len(logs) :
        IsNodeStart(logs[i]) =>
            LET outcomes == {j \in (i + 1)..Len(logs) :
                                /\ logs[j].node_id = logs[i].node_id
                                /\ IsNodeComplete(logs[j]) \/ IsNodeFailed(logs[j])}
            IN  /\ Cardinality(outcomes) <= 1
                /\ Terminal(execution.status) => Cardinality(outcomes) = 1

----------------------------------------------------------------------------
(* C21: in the schema a successful compile works on, the declared fields  *)
(* come first, each once and as declared; the fields after them are the   *)
(* sanitized output keys of the nodes that no declared field carries,     *)
(* each once, typed Any without reducer, in the order of the first node   *)
(* that writes them.                                                      *)
C21_DeclaredKeptFirstWriterWins ==
    (lgCompiles > 0 /\ lgOut.ok) =>
        LET nodes == graph0.nodes
            declared == IF graph0.state_schema = <<>> THEN DefaultSchema
                        ELSE graph0.state_schema
            resolved == ResolveSchema(graph0)
            Writers(name) == {n \in 1..Len(nodes) : InferredKeys(nodes[n]) = <<name>>}
            First(name) == CHOOSE n \in Writers(name) : \A m \in Writers(name) : n <= m
        IN  /\ Len(resolved) >= Len(declared)
            /\ SubSeq(resolved, 1, Len(declared)) = declared
            /\ IsInjective([i \in 1..Len(resolved) |-> resolved[i].name])
            /\ \A n \in 1..Len(nodes) :
                  \A k \in 1..Len(InferredKeys(nodes[n])) :
                      InferredKeys(nodes[n])[k] \in FieldNames(resolved)
            /\ \A i \in (Len(declared) + 1)..Len(resolved) :
                  /\ resolved[i] = Field(resolved[i].name, "Any", "none")
                  /\ Writers(resolved[i].name) # {}
                  /\ \A j \in (i + 1)..Len(resolved) :
                        First(resolved[i].name) < First(resolved[j].name)

\* a compiled graph with a declared field that an output key sanitizes to
\* and a second node whose default key is inferred
C21_Witness ==
    /\ lgCompiles > 0 /\ lgOut.ok
    /\ graph0.state_schema = <<Field(<<"_", "1", "k">>, "list", "add")>>
    /\ Len(graph0.nodes) = 2
    /\ graph0.nodes[1].output_key = <<"1", "k">>
    /\ graph0.nodes[2].type = "dataset"
    /\ Len(ResolveSchema(graph0)) = 2

----------------------------------------------------------------------------
(* C22, as stated: the sanitized name is the name without the characters  *)
(* outside [A-Za-z0-9_], with a leading '_' when what is left starts with *)
(* a digit.  The code replaces such a character by '_' and keeps the      *)
(* length of the name.                                                    *)
C22_SanitizeStrips ==
    ret.ok =>
        LET stripped == SelectSeq(args, LAMBDA c : c \in IdentifierChars)
        IN  ret.code = IF stripped # <<>> /\ stripped[1] \in Digits
                       THEN <<"_">> \o stripped ELSE stripped

(* C22, amended: the sanitized name is the name with every character      *)
(* outside [A-Za-z0-9_] replaced by '_', after a leading '_' when the name *)
(* starts with a digit.                                                   *)
C22_SanitizeReplaces ==
    ret.ok =>
        LET k == IF args[1] \in Digits THEN 1 ELSE 0
        IN  /\ Len(ret.code) = Len(args) + k
            /\ k = 1 => ret.code[1] = "_"
            /\ \A i \in 1..Len(args) :
                  /\ args[i] \in IdentifierChars => ret.code[i + k] = args[i]
                  /\ args[i] \notin IdentifierChars => ret.code[i + k] = "_"

\* a name that starts with a digit and holds a character to replace
C22_Witness ==
    /\ ret.ok
    /\ args = <<"1", "-", "a">>
    /\ ret.code = <<"_", "1", "_", "a">>

----------------------------------------------------------------------------
(* C23: for a condition '<field> <op> <literal>' the conditional node     *)
(* writes the value of comparing the state field with the literal under   *)
(* that operator, and the compiled unit writes the same value.            *)
C23_ConditionResult ==
    ret.ok =>
        LET expected ==
                IF args.operator = <<"=", "=">> THEN args.var_value = args.literal
                ELSE IF args.operator = <<"!", "=">> THEN args.var_value # args.literal
                ELSE IF args.operator = <<">">> THEN args.var_value > args.literal
                ELSE IF args.operator = <<"<">> THEN args.var_value < args.literal
                ELSE IF args.operator = <<">", "=">> THEN args.var_value >= args.literal
                ELSE args.var_value <= args.literal
        IN  /\ ret.code.direct = Returned(expected)
            /\ ret.code.compiled = expected

----------------------------------------------------------------------------
(* C24: a template in which no placeholder names a field of the state     *)
(* comes back from the substitution as it was written, under the direct   *)
(* handlers and in the compiled unit.                                     *)
C24_UnresolvedPlaceholdersVerbatim ==
    (/\ ret.ok
     /\ \A name \in DOMAIN args.data :
           \A p \in 1..(Len(args.text) - Len(name) - 3) :
               SubSeq(args.text, p, p + Len(name) + 3) # <<"{", "{">> \o name \o <<"}", "}">>)
    => /\ ret.code.direct = args.text
       /\ ret.code.compiled = args.text

----------------------------------------------------------------------------
(* C25: LangGraphCompiler.compile leaves the caller's graph as it was:    *)
(* after any number of compiles the state_schema, the nodes and the edges *)
(* of the graph are those the graph had before the first one.             *)
C25_CompileLeavesGraphUnchanged ==
    lgCompiles > 0 =>
        /\ graph.state_schema = graph0.state_schema
        /\ graph.nodes = graph0.nodes
        /\ graph.edges = graph0.edges

----------------------------------------------------------------------------
(* C26: the field that the generated unit of an llm, api or dataset node  *)
(* writes its result under is a field of the resolved state schema,       *)
(* whatever the node's output_key is.                                     *)
C26_WrittenFieldInSchema ==
    ret.ok => ret.code.written \in ret.code.fields

----------------------------------------------------------------------------
(* C27: for each conditional source, every label its routing function can *)
(* return, the output of each branch and "default" when the function has  *)
(* a default case, is a key of the path map wired for that source, and    *)
(* the path map sends the label of a route to the target of that route.   *)
C27_LabelsAreRoutedToOwnTarget ==
    (lgCompiles > 0 /\ lgOut.ok) =>
        \A f \in 1..Len(lgOut.code.routing_functions) :
            LET fn == lgOut.code.routing_functions[f]
                from == SelectSeq(graph0.edges,
                                  LAMBDA e : /\ e.source = fn.source
                                             /\ e.type = "conditional"
                                             /\ e.data.routes # <<>>)[1]
                wirings == SelectSeq(lgOut.code.graph_construction.edges,
                                     LAMBDA w : /\ w.source = fn.source
                                                /\ w.call = "add_conditional_edges")
                Sends(label, target) ==
                    /\ Len(wirings) = 1
                    /\ \E i \in 1..Len(wirings[1].path_map) :
                          wirings[1].path_map[i] = <<label, target>>
            IN  /\ \A b \in 1..Len(fn.branches) :
                      \E r \in 1..Len(from.data.routes) :
                          /\ from.data.routes[r].output = fn.branches[b].output
                          /\ Sends(fn.branches[b].output, from.data.routes[r].target)
                /\ fn.else_branch = "return default" =>
                      Sends("default", from.data.defaultTarget[1])

----------------------------------------------------------------------------
(* C28: once the websocket has sent the complete event, every log entry   *)
(* written for the execution has been sent as a log event before it, the  *)
(* entry written after the commit of the final status included.           *)
C28_AllLogsBeforeComplete ==
    \A c \in 1..Len(events) :
        events[c].type = "complete" =>
            \A i \in 1..Len(logs) :
                \E k \in 1..(c - 1) : events[k] = [type |-> "log", log |-> logs[i]]

\* an observer that connected before the run and polled to the end of it:
\* the final entry of a completed run is sent before the complete event
C28_Witness ==
    /\ ws.pc = "closed"
    /\ ws.polls > 0
    /\ task = "done"
    /\ Len(events) > 2
    /\ events[Len(events)].type = "complete"
    /\ events[Len(events)].status = "completed"
    /\ events[Len(events) - 1] =
          [type |-> "log", log |-> Log(None, "info", "Workflow execution completed")]
    /\ logs[Len(logs)] = Log(None, "info", "Workflow execution completed")
    /\ events[2].type = "status"

----------------------------------------------------------------------------
----------------------------------------------------------------------------
(* C30: every sandbox that _execute_in_sandbox has created is killed by   *)
(* the time the function is left, on the paths that raise (dependency     *)
(* install, dataset upload, workflow error, empty output, invalid JSON)   *)
(* as on the path that returns.                                           *)
C30_SandboxKilledOnExit ==
    task \in {"committed", "done"} => sandbox \in {"none", "killed"}

====
